---- MODULE Spec2Model ----
(***************************************************************************)
(* Model of aegis_final.py: the data engine (fetch_real_us_data,           *)
(* run_forensics, the df_master start-up block) and the dashboard tick     *)
(* handler update_system, driven by the dcc.Interval 'live-update'.        *)
(*                                                                         *)
(* Amounts are fixed-point numbers in thousandths of a dollar (an Amount   *)
(* of 1234560 is 1234.56); sums are exact.  Strings that the code slices,  *)
(* strips or formats are sequences of one-character strings.  The wall     *)
(* clock read by a tick is the number of the interval firing it handles.   *)
(***************************************************************************)
EXTENDS Integers, Sequences, FiniteSets

VARIABLES df_master, n_intervals, pending, log_history, anomaly_ledger_store,
          live_clock, live_console, capital_ticker, capital_style,
          anomaly_ticker, benford_graph, ml_graph, audit_table, tick, calls

vars == <<df_master, n_intervals, pending, log_history, anomaly_ledger_store,
          live_clock, live_console, capital_ticker, capital_style,
          anomaly_ticker, benford_graph, ml_graph, audit_table, tick, calls>>

(* ------------------------------ bounds --------------------------------- *)
MaxBatch == 3
\* the largest magnitude, in thousandths, of the amounts enumerated one by one
MaxMills == 120
\* the firings and the overlapping callbacks of the runs that follow a
\* callback statement by statement
MaxTickCalls == 3
MaxInFlight == 2
MaxTick == 11
\* the length the feed log is capped at: 1000 at line 278, scaled down so that
\* runs of MaxTick ticks fill the log and evict from it
LogCap == 4

(* ------------------------- program constants --------------------------- *)
\* str(...)[:35] at line 276
NameCap == 35

(* ------------------------------ helpers -------------------------------- *)
Min(a, b) == IF a < b THEN a ELSE b

Abs(x) == IF x < 0 THEN 0 - x ELSE x

DigitChars == <<"0", "1", "2", "3", "4", "5", "6", "7", "8", "9">>

\* int(c) for a one-character decimal string
IntOfChar(c) == (CHOOSE i \in 1..10 : DigitChars[i] = c) - 1

RECURSIVE DecimalDigits(_)
\* the decimal digits of a natural number, most significant first
DecimalDigits(k) ==
    IF k < 10 THEN <<DigitChars[k + 1]>>
    ELSE Append(DecimalDigits(k \div 10), DigitChars[(k % 10) + 1])

RECURSIVE StripTrailingZeros(_)
StripTrailingZeros(s) ==
    IF Len(s) > 1 /\ s[Len(s)] = "0"
    THEN StripTrailingZeros(SubSeq(s, 1, Len(s) - 1))
    ELSE s

\* three fractional digits of a value in thousandths, zero padded
FracDigits(f) ==
    <<DigitChars[(f \div 100) + 1], DigitChars[((f \div 10) % 10) + 1],
      DigitChars[(f % 10) + 1]>>

\* str(v) for a non-negative float v = k/1000: "1234.56", "987.0", "0.056"
StrFloat(k) ==
    DecimalDigits(k \div 1000) \o <<".">> \o StripTrailingZeros(FracDigits(k % 1000))

\* s.replace('.', '')
RemovePoint(s) == SelectSeq(s, LAMBDA c : c # ".")

RECURSIVE LStripZeros(_)
\* s.lstrip('0')
LStripZeros(s) ==
    IF Len(s) > 0 /\ s[1] = "0" THEN LStripZeros(Tail(s)) ELSE s

first_digit_no_lstrip(x) ==
    IF Abs(x) > 0 THEN IntOfChar(RemovePoint(StrFloat(Abs(x)))[1])
    ELSE 0

\* the lambda of line 56
first_digit(x) ==
    IF Abs(x) > 0 THEN IntOfChar(LStripZeros(RemovePoint(StrFloat(Abs(x))))[1])
    ELSE 0

RECURSIVE GroupThousands(_)
\* the ',' option of the format spec: a comma before every group of three
GroupThousands(s) ==
    IF Len(s) <= 3 THEN s
    ELSE GroupThousands(SubSeq(s, 1, Len(s) - 3)) \o <<",">>
         \o SubSeq(s, Len(s) - 2, Len(s))

\* round a non-negative value in thousandths to hundredths, ties to even
RoundCents(k) ==
    LET q == k \div 10
        r == k % 10
    IN  IF r > 5 \/ (r = 5 /\ q % 2 = 1) THEN q + 1 ELSE q

\* "${:,.2f}".format(x) and f"${x:,.2f}"
FormatMoney(x) ==
    LET c == RoundCents(Abs(x))
    IN  <<"$">> \o (IF x < 0 THEN <<"-">> ELSE <<>>)
        \o GroupThousands(DecimalDigits(c \div 100)) \o <<".">>
        \o <<DigitChars[((c \div 10) % 10) + 1], DigitChars[(c % 10) + 1]>>

(* --------------------- 1. data engine: the source ---------------------- *)
ACME == <<"A","C","M","E">>
ELECTRIC_BOAT == <<"G","E","N","E","R","A","L"," ","D","Y","N","A","M","I","C","S"," ","E","L","E","C","T","R","I","C"," ","B","O","A","T"," ","C","O","R","P","O","R","A","T","I","O","N">>
WAITING == <<"W","A","I","T","I","N","G"," ","F","O","R"," ","D","A","T","A"," ","C","O","N","N","E","C","T","I","O","N",".",".",".">>

\* response.json()['results']: the records the award search can return
Results ==
    { [Award_ID |-> "A1", Recipient_Name |-> ACME,          Award_Amount |-> 1234560],
      [Award_ID |-> "B2", Recipient_Name |-> ELECTRIC_BOAT, Award_Amount |-> 0 - 987000],
      [Award_ID |-> "C3", Recipient_Name |-> ACME,          Award_Amount |-> 0],
      [Award_ID |-> "A1", Recipient_Name |-> ELECTRIC_BOAT, Award_Amount |-> 56],
      [Award_ID |-> "B2", Recipient_Name |-> ACME,          Award_Amount |-> 1234560] }

\* hashlib.md5(short_id.encode()).hexdigest().upper()[:10]
md5_prefix(short_id) ==
    CASE short_id = "A1" -> "27F237E6B7"
      [] short_id = "B2" -> "BBD97B00C5"
      [] short_id = "C3" -> "3ABE124ECC"

make_long_id(short_id) == <<"W91", md5_prefix(short_id), short_id>>

\* the frame fetch_real_us_data returns for a response (empty on any failure)
fetch_real_us_data(results) ==
    [i \in 1..Len(results) |->
        [Award_ID       |-> make_long_id(results[i].Award_ID),
         Recipient_Name |-> results[i].Recipient_Name,
         Amount         |-> results[i].Award_Amount]]

\* run_forensics; outliers is the set of amounts the fitted forest scores -1
run_forensics(df, outliers) ==
    [i \in 1..Len(df) |->
        [Award_ID       |-> df[i].Award_ID,
         Recipient_Name |-> df[i].Recipient_Name,
         Amount         |-> df[i].Amount,
         Anomaly_Flag   |-> IF df[i].Amount \in outliers THEN 0 - 1 ELSE 1,
         first_digit    |-> first_digit(df[i].Amount),
         Display_Amount |-> FormatMoney(df[i].Amount)]]

NA == <<"N/A">>

Placeholder ==
    <<[Award_ID       |-> NA,
       Recipient_Name |-> WAITING,
       Amount         |-> 0,
       Anomaly_Flag   |-> 1,
       first_digit    |-> 0]>>

\* lines 63-71: df_master after start-up
Startup(results, outliers) ==
    LET df == run_forensics(fetch_real_us_data(results), outliers)
    IN  IF Len(df) = 0 THEN Placeholder ELSE df

RECURSIVE SeqsUpTo(_, _)
\* the sequences over S of length at most n
SeqsUpTo(S, n) ==
    IF n = 0 THEN {<<>>}
    ELSE LET shorter == SeqsUpTo(S, n - 1)
         IN  shorter \cup {Append(s, x) : s \in shorter, x \in S}

\* a response of ten awards
TenAwards ==
    [i \in 1..10 |->
        CASE i % 5 = 1 -> [Award_ID |-> "A1", Recipient_Name |-> ACME, Award_Amount |-> 1234560]
          [] i % 5 = 2 -> [Award_ID |-> "B2", Recipient_Name |-> ELECTRIC_BOAT, Award_Amount |-> 0 - 987000]
          [] i % 5 = 3 -> [Award_ID |-> "C3", Recipient_Name |-> ACME, Award_Amount |-> 0]
          [] i % 5 = 4 -> [Award_ID |-> "A1", Recipient_Name |-> ELECTRIC_BOAT, Award_Amount |-> 56]
          [] i % 5 = 0 -> [Award_ID |-> "B2", Recipient_Name |-> ACME, Award_Amount |-> 1234560]]

\* the responses the model starts from
Responses == SeqsUpTo(Results, MaxBatch) \cup {TenAwards}

AmountsOf(results) == {results[i].Award_Amount : i \in 1..Len(results)}

(* --------------------------- 3. the callback --------------------------- *)
PASSED == "PASSED"
FLAGGED == "FLAGGED"
MONITORED == "MONITORED"

\* np.log10(1 + 1/np.arange(1, 10)), in thousandths
expected_benford == <<301, 176, 125, 97, 79, 67, 58, 51, 46>>

RECURSIVE SumAmount(_)
\* frame['Amount'].sum()
SumAmount(frame) ==
    IF Len(frame) = 0 THEN 0
    ELSE SumAmount(SubSeq(frame, 1, Len(frame) - 1)) + frame[Len(frame)].Amount

\* frame.iloc[:k]
ILocHead(frame, k) == SubSeq(frame, 1, Min(k, Len(frame)))

batch_size == Len(df_master)

no_data_size_only == batch_size = 0

\* the guard of line 255
no_data == batch_size = 0 \/ df_master[1].Award_ID = NA

loops_rounded_up(n) == (n + 1) \div batch_size

loops(n) == n \div batch_size

step(n) == n % batch_size

inf_capital_exclusive(n) ==
    (loops(n) * SumAmount(df_master)) + SumAmount(ILocHead(df_master, step(n)))

inf_capital_current_cycle(n) == SumAmount(ILocHead(df_master, step(n) + 1))

inf_capital(n) ==
    (loops(n) * SumAmount(df_master)) + SumAmount(ILocHead(df_master, step(n) + 1))

\* df_master.iloc[step]
row(n) == df_master[step(n) + 1]

is_anomaly(n) == row(n).Anomaly_Flag = 0 - 1

existing_ids(current_ledger) ==
    {current_ledger[i].Award_ID : i \in 1..Len(current_ledger)}

status_text_never_monitored(n, current_ledger) ==
    IF is_anomaly(n) THEN FLAGGED ELSE PASSED

status_text_monitors_inliers(n, current_ledger) ==
    IF row(n).Award_ID \in existing_ids(current_ledger)
    THEN MONITORED
    ELSE IF is_anomaly(n) THEN FLAGGED ELSE PASSED

status_text(n, current_ledger) ==
    IF is_anomaly(n) /\ row(n).Award_ID \in existing_ids(current_ledger)
    THEN MONITORED
    ELSE IF is_anomaly(n) THEN FLAGGED ELSE PASSED

status_color(n, current_ledger) ==
    IF is_anomaly(n) /\ row(n).Award_ID \in existing_ids(current_ledger)
    THEN "#FFD700"
    ELSE IF is_anomaly(n) THEN "#ff4d4d" ELSE "#00f5d4"

new_log(n, now_time, current_ledger) ==
    [time   |-> now_time,
     name   |-> SubSeq(row(n).Recipient_Name, 1,
                       Min(NameCap, Len(row(n).Recipient_Name))),
     status |-> status_text(n, current_ledger),
     color  |-> status_color(n, current_ledger)]

updated_logs_evict_newest(n, now_time, current_logs, current_ledger) ==
    LET appended == Append(current_logs, new_log(n, now_time, current_ledger))
    IN  IF Len(appended) > LogCap THEN SubSeq(appended, 1, Len(appended) - 1)
        ELSE appended

\* lines 277-278
updated_logs(n, now_time, current_logs, current_ledger) ==
    LET appended == Append(current_logs, new_log(n, now_time, current_ledger))
    IN  IF Len(appended) > LogCap THEN Tail(appended) ELSE appended

\* lines 280-283
console_children(logs) ==
    [i \in 1..Len(logs) |->
        [scanning |-> <<logs[i].time, logs[i].name>>,
         status   |-> logs[i].status,
         color    |-> logs[i].color]]

updated_ledger_no_dedup(n, current_ledger) ==
    IF is_anomaly(n) THEN Append(current_ledger, row(n)) ELSE current_ledger

updated_ledger_newest_first(n, current_ledger) ==
    IF is_anomaly(n) /\ row(n).Award_ID \notin existing_ids(current_ledger)
    THEN <<row(n)>> \o current_ledger
    ELSE current_ledger

updated_ledger_any_row(n, current_ledger) ==
    IF row(n).Award_ID \notin existing_ids(current_ledger)
    THEN Append(current_ledger, row(n))
    ELSE current_ledger

\* lines 286-288
updated_ledger(n, current_ledger) ==
    IF is_anomaly(n) /\ row(n).Award_ID \notin existing_ids(current_ledger)
    THEN Append(current_ledger, row(n))
    ELSE current_ledger

\* the number of rows of frame whose first_digit is d
DigitCount(frame, d) == Cardinality({i \in 1..Len(frame) : frame[i].first_digit = d})

\* value_counts(normalize=True): every count over the number of values counted
value_counts_total(frame) == Len(frame)

obs_whole_batch_after_wrap(n) ==
    LET df_vis == IF loops(n) > 0 THEN df_master
                  ELSE ILocHead(df_master, step(n) + 1)
    IN  [d \in 1..9 |-> [num |-> DigitCount(df_vis, d),
                         den |-> value_counts_total(df_vis)]]

\* line 294: one fraction per digit 1..9, absent digits filled with 0
obs(n) ==
    LET df_vis == ILocHead(df_master, step(n) + 1)
    IN  [d \in 1..9 |-> [num |-> DigitCount(df_vis, d),
                         den |-> value_counts_total(df_vis)]]

fig_ben(n) == [observed |-> obs(n), expected |-> expected_benford]

background_data(n) ==
    IF loops(n) > 0 THEN 1..Len(df_master) ELSE 1..Min(step(n) + 1, Len(df_master))

\* the rows of the frame at the (1-based) positions idx, as scatter points
Points(idx) ==
    LET ordered == SelectSeq([i \in 1..Len(df_master) |-> i], LAMBDA i : i \in idx)
    IN  [j \in 1..Len(ordered) |->
            [x |-> ordered[j] - 1, y |-> df_master[ordered[j]].Amount]]

anomalies_in_ledger_all_outliers(ledger) ==
    {i \in 1..Len(df_master) : df_master[i].Anomaly_Flag = 0 - 1}

anomalies_in_ledger(ledger) ==
    {i \in 1..Len(df_master) : df_master[i].Award_ID \in existing_ids(ledger)}

fig_ml(n, ledger) ==
    [background |-> Points(background_data(n)),
     flagged    |-> Points(anomalies_in_ledger(ledger))]

(* ------------------------- state machine ------------------------------- *)
\* the values every output of the layout holds before the first callback
InitPage ==
    /\ n_intervals = 0
    /\ pending = TRUE
    /\ log_history = <<>>
    /\ anomaly_ledger_store = <<>>
    /\ live_clock = <<>>
    /\ live_console = <<>>
    /\ capital_ticker = <<>>
    /\ capital_style = <<>>
    /\ anomaly_ticker = <<>>
    /\ benford_graph = <<>>
    /\ ml_graph = <<>>
    /\ audit_table = <<>>
    /\ tick = [path |-> "init", n |-> 0, loops |-> 0, step |-> 0,
               inf_capital |-> 0, status |-> "", added |-> FALSE]
    /\ calls = <<>>

Init ==
    /\ \E results \in Responses :
         \E outliers \in SUBSET AmountsOf(results) :
            df_master = Startup(results, outliers)
    /\ InitPage

\* dcc.Interval 'live-update': the next firing, once the previous tick's
\* callback has returned
live_update ==
    /\ ~pending
    /\ n_intervals < MaxTick
    /\ n_intervals' = n_intervals + 1
    /\ pending' = TRUE
    /\ UNCHANGED <<df_master, log_history, anomaly_ledger_store, live_clock,
                   live_console, capital_ticker, capital_style, anomaly_ticker,
                   benford_graph, ml_graph, audit_table, tick, calls>>

\* the early return of line 256
update_system_no_data(n) ==
    /\ live_clock' = <<n, "UTC">>
    /\ live_console' = <<>>
    /\ capital_ticker' = <<"$", "0", ".", "0", "0">>
    /\ capital_style' = <<>>
    /\ anomaly_ticker' = <<"0">>
    /\ benford_graph' = <<>>
    /\ ml_graph' = <<>>
    /\ audit_table' = <<>>
    /\ log_history' = <<>>
    /\ anomaly_ledger_store' = <<>>
    /\ tick' = [path |-> "no_data", n |-> n, loops |-> 0, step |-> 0,
                inf_capital |-> 0, status |-> "", added |-> FALSE]

\* lines 292-332: the figures and the return of the ten outputs, for the
\* locals updated_logs (logs) and updated_ledger (ledger) of the tick
return_outputs(n, current_ledger, logs, ledger) ==
    /\ live_clock' = <<n, "UTC">>
    /\ live_console' = console_children(logs)
    /\ capital_ticker' = FormatMoney(inf_capital(n))
    /\ capital_style' = <<<<"margin", "0">>, <<"fontSize", "22px">>,
                         <<"color", status_color(n, current_ledger)>>>>
    /\ anomaly_ticker' = DecimalDigits(Len(ledger))
    /\ benford_graph' = fig_ben(n)
    /\ ml_graph' = fig_ml(n, ledger)
    /\ audit_table' = ledger
    /\ log_history' = logs
    /\ anomaly_ledger_store' = ledger
    /\ tick' = [path |-> "ok", n |-> n, loops |-> loops(n), step |-> step(n),
                inf_capital |-> inf_capital(n),
                status |-> status_text(n, current_ledger),
                added |-> Len(ledger) > Len(current_ledger)]

\* lines 258-332 for the firing n and the two State values
update_system_ok(n, current_logs, current_ledger) ==
    return_outputs(n, current_ledger,
                   updated_logs(n, n, current_logs, current_ledger),
                   updated_ledger(n, current_ledger))

update_system_refits ==
    /\ pending
    /\ pending' = FALSE
    /\ IF no_data THEN update_system_no_data(n_intervals)
       ELSE update_system_ok(n_intervals, log_history, anomaly_ledger_store)
    /\ df_master' = IF no_data THEN df_master
                    ELSE run_forensics(df_master, {row(n_intervals).Amount})
    /\ UNCHANGED <<n_intervals, calls>>

update_system ==
    /\ pending
    /\ pending' = FALSE
    /\ IF no_data THEN update_system_no_data(n_intervals)
       ELSE update_system_ok(n_intervals, log_history, anomaly_ledger_store)
    /\ UNCHANGED <<df_master, n_intervals, calls>>

Next == live_update \/ update_system

Spec == Init /\ [][Next]_vars

\* the amounts annotated one by one: every magnitude up to MaxMills
\* thousandths and a sample of larger ones, with both signs
DigitAmounts ==
    LET magnitudes == (0..MaxMills) \cup {987000, 1234560, 1000, 1005, 20000,
                                          300000, 4000000, 50000000, 99999999}
    IN  magnitudes \cup {0 - m : m \in magnitudes}

\* start-up on a response of one award of any of these amounts
InitDigits ==
    /\ \E a \in DigitAmounts :
         \E outliers \in SUBSET {a} :
            df_master = Startup(<<[Award_ID |-> "A1", Recipient_Name |-> ACME,
                                   Award_Amount |-> a]>>, outliers)
    /\ InitPage

SpecDigits == InitDigits /\ [][Next]_vars

(* ------------- the callback followed statement by statement ------------- *)
\* the responses of the runs that follow the callback through its statements
CallResponses ==
    { <<>>,
      <<[Award_ID |-> "A1", Recipient_Name |-> ACME, Award_Amount |-> 1234560]>>,
      <<[Award_ID |-> "B2", Recipient_Name |-> ELECTRIC_BOAT, Award_Amount |-> 0 - 987000],
        [Award_ID |-> "A1", Recipient_Name |-> ACME, Award_Amount |-> 1234560]>>,
      <<[Award_ID |-> "A1", Recipient_Name |-> ACME, Award_Amount |-> 1234560],
        [Award_ID |-> "A1", Recipient_Name |-> ELECTRIC_BOAT, Award_Amount |-> 56]>>,
      <<[Award_ID |-> "C3", Recipient_Name |-> ACME, Award_Amount |-> 0],
        [Award_ID |-> "B2", Recipient_Name |-> ACME, Award_Amount |-> 1234560],
        [Award_ID |-> "A1", Recipient_Name |-> ELECTRIC_BOAT, Award_Amount |-> 56]>> }

InitCalls ==
    /\ \E results \in CallResponses :
         \E outliers \in SUBSET AmountsOf(results) :
            df_master = Startup(results, outliers)
    /\ InitPage

\* the outputs and the two stores
outputs ==
    <<live_clock, live_console, capital_ticker, capital_style, anomaly_ticker,
      benford_graph, ml_graph, audit_table, log_history, anomaly_ledger_store>>

\* calls without its i-th element
Without(i) == SubSeq(calls, 1, i - 1) \o SubSeq(calls, i + 1, Len(calls))

\* dcc.Interval: a firing while at most in_flight callbacks are running
interval_fires(in_flight) ==
    /\ ~pending
    /\ Len(calls) <= in_flight
    /\ n_intervals < MaxTickCalls
    /\ n_intervals' = n_intervals + 1
    /\ pending' = TRUE
    /\ UNCHANGED <<df_master, outputs, tick, calls>>

\* lines 250-252: the callback is entered with the firing and the two State
\* values of the page at that moment
call_begin ==
    /\ pending
    /\ pending' = FALSE
    /\ calls' = Append(calls, [pc             |-> "guard",
                               n              |-> n_intervals,
                               current_logs   |-> log_history,
                               current_ledger |-> anomaly_ledger_store,
                               updated_logs   |-> <<>>,
                               updated_ledger |-> <<>>])
    /\ UNCHANGED <<df_master, n_intervals, outputs, tick>>

\* lines 254-256
call_guard(i) ==
    /\ calls[i].pc = "guard"
    /\ IF no_data
       THEN /\ update_system_no_data(calls[i].n)
            /\ calls' = Without(i)
       ELSE /\ calls' = [calls EXCEPT ![i].pc = "feed"]
            /\ UNCHANGED <<outputs, tick>>
    /\ UNCHANGED <<df_master, n_intervals, pending>>

feed_step_in_place(c) ==
    [c EXCEPT !.current_logs = Append(c.current_logs,
                                      new_log(c.n, c.n, c.current_ledger)),
              !.updated_logs = updated_logs(c.n, c.n, c.current_logs, c.current_ledger),
              !.pc = "ledger"]

\* lines 258-283: the locals of a call after the feed has been updated
feed_step(c) ==
    [c EXCEPT !.updated_logs = updated_logs(c.n, c.n, c.current_logs, c.current_ledger),
              !.pc = "ledger"]

call_feed(i) ==
    /\ calls[i].pc = "feed"
    /\ calls' = [calls EXCEPT ![i] = feed_step(calls[i])]
    /\ UNCHANGED <<df_master, n_intervals, pending, outputs, tick>>

\* lines 285-290: the locals of a call after the ledger has been updated
ledger_step(c) ==
    [c EXCEPT !.updated_ledger = updated_ledger(c.n, c.current_ledger),
              !.pc = "return"]

call_ledger(i) ==
    /\ calls[i].pc = "ledger"
    /\ calls' = [calls EXCEPT ![i] = ledger_step(calls[i])]
    /\ UNCHANGED <<df_master, n_intervals, pending, outputs, tick>>

\* lines 292-332
call_return(i) ==
    /\ calls[i].pc = "return"
    /\ return_outputs(calls[i].n, calls[i].current_ledger,
                      calls[i].updated_logs, calls[i].updated_ledger)
    /\ calls' = Without(i)
    /\ UNCHANGED <<df_master, n_intervals, pending>>

\* an exception at the statement the call has reached: the function returns
\* nothing and its locals are gone
call_raises(i) ==
    /\ calls' = Without(i)
    /\ tick' = [path |-> "raised", n |-> calls[i].n, loops |-> 0, step |-> 0,
                inf_capital |-> 0, status |-> calls[i].pc, added |-> FALSE]
    /\ UNCHANGED <<df_master, n_intervals, pending, outputs>>

call_steps ==
    \E i \in 1..Len(calls) :
        \/ call_guard(i)
        \/ call_feed(i)
        \/ call_ledger(i)
        \/ call_return(i)
        \/ call_raises(i)

\* one callback at a time: the interval fires once the callback has ended
NextCalls == interval_fires(0) \/ call_begin \/ call_steps

SpecCalls == InitCalls /\ [][NextCalls]_vars

\* the interval fires every 1200 ms whether or not a callback is running
NextOverlap == interval_fires(MaxInFlight - 1) \/ call_begin \/ call_steps

SpecOverlap == InitCalls /\ [][NextOverlap]_vars

(* ------------------------------ properties ----------------------------- *)
\* the step of Next in which update_system handles firing n_intervals
Handles == pending /\ ~pending'

\* the record the cursor of firing t points at (t counted from 0)
Visited(t) == df_master[(t % Len(df_master)) + 1]

IsOutlier(r) == r.Anomaly_Flag = 0 - 1

LedgerIds(ledger) == {ledger[i].Award_ID : i \in 1..Len(ledger)}

LastStatus(logs) == logs[Len(logs)].status

IsPrefix(s, t) == Len(s) <= Len(t) /\ SubSeq(t, 1, Len(s)) = s

\* C1: after any sequence of ticks from an empty ledger, each tick receiving
\* the ledger the previous one returned, no transaction id occurs twice in the
\* ledger, however often the replay revisits a position.
C1_LedgerIdsUnique ==
    \A i, j \in 1..Len(anomaly_ledger_store) :
        i # j => anomaly_ledger_store[i].Award_ID # anomaly_ledger_store[j].Award_ID

C1_Witness ==
    /\ tick.path = "ok" /\ tick.loops >= 1 /\ tick.status = MONITORED
    /\ Len(anomaly_ledger_store) >= 2

\* C2: in every tick the status and the ledger change are determined by
\* (is_outlier, id already in the ledger): not an outlier -> PASSED, ledger
\* unchanged; outlier, id new -> FLAGGED and exactly that transaction is
\* inserted; outlier, id present -> MONITORED, ledger unchanged.
C2_StatusAndLedgerByCase ==
    [][ (Handles /\ tick'.path = "ok") =>
          LET r == Visited(n_intervals)
              present == r.Award_ID \in LedgerIds(anomaly_ledger_store)
          IN  /\ (~IsOutlier(r)) =>
                    /\ LastStatus(log_history') = PASSED
                    /\ anomaly_ledger_store' = anomaly_ledger_store
              /\ (IsOutlier(r) /\ ~present) =>
                    /\ LastStatus(log_history') = FLAGGED
                    /\ anomaly_ledger_store' = anomaly_ledger_store \o <<r>>
              /\ (IsOutlier(r) /\ present) =>
                    /\ LastStatus(log_history') = MONITORED
                    /\ anomaly_ledger_store' = anomaly_ledger_store ]_vars

C2_Witness ==
    /\ tick.path = "ok" /\ tick.status = FLAGGED /\ tick.added
    /\ Len(anomaly_ledger_store) >= 2
    /\ \E i \in 1..Len(df_master) : ~IsOutlier(df_master[i])

\* an earlier firing observed an outlier with the id of the record of firing t
ObservedBefore(t) ==
    \E k \in 0..(t - 1) :
        IsOutlier(Visited(k)) /\ Visited(k).Award_ID = Visited(t).Award_ID

\* C3: over consecutive ticks 0,1,2,..., a flagged id is reported FLAGGED
\* exactly on its first observation and MONITORED on every later one, and the
\* ledger count does not change on the later observations.
C3_FlaggedOnceThenMonitored ==
    [][ (Handles /\ tick'.path = "ok" /\ IsOutlier(Visited(n_intervals))) =>
          /\ (LastStatus(log_history') = FLAGGED) <=> ~ObservedBefore(n_intervals)
          /\ (LastStatus(log_history') = MONITORED) <=> ObservedBefore(n_intervals)
          /\ ObservedBefore(n_intervals) =>
                Len(anomaly_ledger_store') = Len(anomaly_ledger_store) ]_vars

C3_Witness ==
    /\ tick.path = "ok" /\ tick.loops >= 2 /\ tick.status = MONITORED
    /\ Len(anomaly_ledger_store) >= 1 /\ ~tick.added

\* C4: the ledger is append-only: the ledger a tick returns has the ledger it
\* received as a prefix and is at most one entry longer, and the exported
\* snapshot is that same sequence, in insertion order.
C4_LedgerAppendOnly ==
    [][ /\ IsPrefix(anomaly_ledger_store, anomaly_ledger_store')
        /\ Len(anomaly_ledger_store') <= Len(anomaly_ledger_store) + 1
        /\ Handles => audit_table' = anomaly_ledger_store' ]_vars

C4_Witness ==
    /\ tick.path = "ok" /\ tick.added /\ Len(anomaly_ledger_store) >= 2
    /\ audit_table = anomaly_ledger_store

RECURSIVE Replay(_)
\* the cursor walked one record per tick from tick 0 to tick t, wrapping at
\* the end of the batch, with the sum of the amounts it visited
Replay(t) ==
    IF t = 0 THEN [cycle |-> 0, position |-> 0, sum |-> df_master[1].Amount]
    ELSE LET p == Replay(t - 1)
             wrap == p.position + 1 = Len(df_master)
             pos == IF wrap THEN 0 ELSE p.position + 1
         IN  [cycle    |-> IF wrap THEN p.cycle + 1 ELSE p.cycle,
              position |-> pos,
              sum      |-> p.sum + df_master[pos + 1].Amount]

\* C5: for a non-empty batch of size N and every tick, cycle = tick div N,
\* position = tick mod N and cumulative_sum = cycle * sum(all amounts) +
\* sum(amounts[0..position]), which is the sum of the amounts visited by the
\* cyclic replay from tick 0 through this tick.
C5_CursorIsCyclicReplay ==
    tick.path = "ok" =>
        /\ tick.loops = Replay(tick.n).cycle
        /\ tick.step = Replay(tick.n).position
        /\ tick.loops * Len(df_master) + tick.step = tick.n
        /\ tick.inf_capital = Replay(tick.n).sum
        /\ tick.inf_capital =
              tick.loops * SumAmount(df_master)
              + SumAmount(SubSeq(df_master, 1, tick.step + 1))

C5_Witness ==
    /\ tick.path = "ok" /\ tick.loops >= 1 /\ tick.step >= 1
    /\ SumAmount(df_master) # 0 /\ Len(df_master) >= 3

\* the step in which the tick after the last record of the first cycle is
\* handled: tick holds the cursor of firing N-1, tick' that of firing N
WrapStep ==
    /\ Handles /\ tick.path = "ok" /\ tick'.path = "ok"
    /\ n_intervals = Len(df_master)

\* C6 as stated: tick N-1 gives (cycle 0, position N-1), tick N gives
\* (cycle 1, position 0), and cumulative_sum at tick N is cumulative_sum at
\* tick N-1 plus amount[0] plus the full batch sum.
C6_WrapAddsFullBatchSum ==
    [][ WrapStep =>
          /\ tick.loops = 0 /\ tick.step = Len(df_master) - 1
          /\ tick'.loops = 1 /\ tick'.step = 0
          /\ tick'.inf_capital =
                tick.inf_capital + df_master[1].Amount + SumAmount(df_master) ]_vars

\* C6 amended: tick N-1 gives (cycle 0, position N-1), tick N gives
\* (cycle 1, position 0), and cumulative_sum at tick N is cumulative_sum at
\* tick N-1 plus amount[0].
C6_WrapAddsFirstAmount ==
    [][ WrapStep =>
          /\ tick.n = Len(df_master) - 1
          /\ tick.loops = 0 /\ tick.step = Len(df_master) - 1
          /\ tick'.loops = 1 /\ tick'.step = 0
          /\ tick'.inf_capital = tick.inf_capital + df_master[1].Amount ]_vars

C6_Witness ==
    /\ tick.path = "ok" /\ ~pending /\ Len(df_master) = 10 /\ tick.n = 10
    /\ tick.loops = 1 /\ tick.step = 0 /\ SumAmount(df_master) # 0

AllNonNegative == \A i \in 1..Len(df_master) : df_master[i].Amount >= 0

\* C7: when every amount of the batch is non-negative the cumulative sum
\* never decreases from one tick to a later one, across replay cycles too.
C7_CapitalMonotonic ==
    [][ (AllNonNegative /\ tick.path = "ok" /\ tick'.path = "ok") =>
          tick'.inf_capital >= tick.inf_capital ]_vars

C7_Witness ==
    /\ AllNonNegative /\ tick.path = "ok" /\ tick.loops >= 1 /\ tick.step = 0
    /\ Len(df_master) >= 2 /\ SumAmount(df_master) > df_master[1].Amount

\* C8: when the source yields no records, annotation returns an empty batch
\* and every tick short-circuits before the cursor arithmetic into the
\* no-data state: empty feed log, capital $0.00, ledger count 0, empty
\* ledger; no tick divides by zero or raises.
C8_EmptySourceIsNoData ==
    /\ run_forensics(fetch_real_us_data(<<>>), {}) = <<>>
    /\ (df_master = Startup(<<>>, {}) /\ tick.path # "init") =>
          /\ tick.path = "no_data"
          /\ log_history = <<>> /\ live_console = <<>>
          /\ capital_ticker = <<"$", "0", ".", "0", "0">>
          /\ anomaly_ticker = <<"0">>
          /\ anomaly_ledger_store = <<>> /\ audit_table = <<>>

C8_Witness ==
    /\ df_master = Startup(<<>>, {}) /\ tick.path = "no_data" /\ tick.n >= 2
    /\ ~pending /\ live_clock = <<tick.n, "UTC">>

\* the feed log entry of the firing t, as far as the batch alone decides it
EntryOf(t, e) ==
    /\ e.time = t
    /\ e.name = SubSeq(Visited(t).Recipient_Name, 1,
                       Min(35, Len(Visited(t).Recipient_Name)))
    /\ (e.status = PASSED) <=> ~IsOutlier(Visited(t))

\* C9: after any sequence of ticks on a non-empty batch from an empty feed
\* log, the log holds at most LogCap entries (1000 in the source) and is
\* exactly the most recent min(k, LogCap) entries of the k ticks processed, in
\* tick order; each tick appends one entry at the end and, above the cap,
\* evicts only the oldest.
C9_FeedLogIsMostRecent ==
    /\ [](/\ Len(log_history) <= LogCap
          /\ tick.path = "ok" =>
                /\ Len(log_history) = Min(tick.n + 1, LogCap)
                /\ \A i \in 1..Len(log_history) :
                      EntryOf(tick.n - Len(log_history) + i, log_history[i]))
    /\ [][ (Handles /\ tick'.path = "ok") =>
             LET e == log_history'[Len(log_history')]
             IN  log_history' =
                    IF Len(log_history) + 1 > LogCap
                    THEN Tail(log_history) \o <<e>>
                    ELSE log_history \o <<e>> ]_vars

C9_Witness ==
    /\ tick.path = "ok" /\ tick.n >= LogCap + 1 /\ Len(log_history) = LogCap
    /\ log_history[1].time = tick.n - LogCap + 1
    /\ log_history[LogCap].time = tick.n
    /\ \E i \in 1..LogCap : Len(log_history[i].name) = 35

RECURSIVE SumNum(_, _)
\* the sum of the numerators of the fractions o[1..d]
SumNum(o, d) == IF d = 0 THEN 0 ELSE SumNum(o, d - 1) + o[d].num

\* C10: the observed distribution of every tick has an entry for each digit
\* 1..9, equal to the count of that digit among the leading digits of the
\* window divided by the count of non-zero-digit entries (digit class 0 is
\* ignored in numerator and denominator), so the nine frequencies sum to 1
\* whenever the input is non-empty (read here as: whenever the window holds
\* at least one non-zero digit, the only case in which the quotient exists).
C10_ObservedOverNonZeroDigits ==
    tick.path = "ok" =>
        LET window == SubSeq(df_master, 1, tick.step + 1)
            count(d) == Cardinality({i \in 1..Len(window) : window[i].first_digit = d})
            nonzero == Cardinality({i \in 1..Len(window) : window[i].first_digit # 0})
            o == benford_graph.observed
        IN  /\ DOMAIN o = 1..9
            /\ nonzero > 0 =>
                  /\ \A d \in 1..9 :
                        o[d].den > 0 /\ o[d].num * nonzero = count(d) * o[d].den
                  /\ SumNum(o, 9) = o[1].den


RECURSIVE LeadingDigit(_)
\* the first non-zero digit of the decimal expansion of a positive number of
\* thousandths, by arithmetic
LeadingDigit(k) == IF k < 10 THEN k ELSE LeadingDigit(k \div 10)

\* C11: annotation gives every amount of the batch one leading_digit in 0..9:
\* 0 exactly when the magnitude is zero, otherwise the first non-zero digit of
\* the decimal representation of abs(amount) with the point removed
\* (1234.56 -> 1, -987.0 -> 9, 0.056 -> 5, 0 -> 0); the sign does not matter.
C11_LeadingDigit ==
    \A i \in 1..Len(df_master) :
        LET r == df_master[i]
            m == IF r.Amount < 0 THEN 0 - r.Amount ELSE r.Amount
        IN  /\ r.first_digit \in 0..9
            /\ (r.first_digit = 0) <=> (r.Amount = 0)
            /\ m > 0 => r.first_digit = LeadingDigit(m)
            /\ r.first_digit = first_digit(0 - r.Amount)
            /\ r.Amount = 1234560 => r.first_digit = 1
            /\ r.Amount = 0 - 987000 => r.first_digit = 9
            /\ r.Amount = 56 => r.first_digit = 5

C11_Witness ==
    /\ df_master[1].Award_ID # NA
    /\ df_master[1].Amount < 0 /\ df_master[1].Amount > 0 - 100
    /\ df_master[1].first_digit = 7
    /\ tick.path = "ok"


\* all of a log but its last entry
Front(logs) == SubSeq(logs, 1, Len(logs) - 1)

\* C12: ticks are processed strictly one at a time: the handler of tick k+1
\* never starts before the handler of tick k has completed or failed, so every
\* tick reads the ledger and log written by the tick before it and no ledger
\* or log entry produced by one tick is overwritten and lost by another.
\* Stated by what it promises of every step: the stored ledger only grows at
\* its end, and a tick that writes the log keeps the entries it found there
\* (all of them, or all but the oldest at the cap).
C12_NoTickOverwritesAnother ==
    [][ /\ IsPrefix(anomaly_ledger_store, anomaly_ledger_store')
        /\ (log_history' # log_history /\ tick'.path = "ok") =>
              \/ Front(log_history') = log_history
              \/ Front(log_history') = Tail(log_history) ]_vars


\* the step in which a call ends by raising
Raises == Len(calls') < Len(calls) /\ tick'.path = "raised"

\* C13: a tick that fails at any point of its computation exposes no output
\* and leaves the ledger, the feed log and the displayed state as they were
\* (the received ledger and log are never mutated in place); a tick that
\* succeeds produces all of its outputs together.
C13_TickIsAllOrNothing ==
    [][ /\ Raises => outputs' = outputs
        /\ \A i \in 1..Len(calls) :
              (i <= Len(calls') /\ calls'[i].n = calls[i].n) =>
                  /\ calls'[i].current_logs = calls[i].current_logs
                  /\ calls'[i].current_ledger = calls[i].current_ledger
        /\ outputs' # outputs =>
              /\ Len(calls') < Len(calls)
              /\ tick'.path \in {"ok", "no_data"}
              /\ live_clock' = <<tick'.n, "UTC">>
              /\ audit_table' = anomaly_ledger_store'
              /\ Len(live_console') = Len(log_history')
              /\ anomaly_ticker' = DecimalDigits(Len(anomaly_ledger_store'))
              /\ tick'.path = "ok" =>
                    /\ log_history'[Len(log_history')].time = tick'.n
                    /\ live_console'[Len(live_console')].scanning[1] = tick'.n
                    /\ benford_graph' # <<>> /\ ml_graph' # <<>>
                    /\ capital_ticker' # <<>> /\ capital_style' # <<>> ]_vars

C13_Witness ==
    /\ tick.path = "raised" /\ tick.status = "return" /\ tick.n >= 1
    /\ Len(log_history) >= 1
    /\ log_history[Len(log_history)].time < tick.n
    /\ live_clock[1] < tick.n


\* the batch positions (from 1) the cursor has visited up to the last tick
VisitedPositions == 1..Min(tick.n + 1, Len(df_master))

\* C14: every transaction of an ingested batch has an id unique within the
\* batch, so that two distinct anomalous transactions of the batch are never
\* collapsed into one ledger entry, the second being reported MONITORED
\* instead of FLAGGED.  Stated by what it promises of the ticks: nothing is
\* MONITORED during the first replay cycle, and every anomalous record the
\* cursor has visited has its own entry in the ledger.
C14_DistinctAnomaliesNotCollapsed ==
    tick.path = "ok" =>
        /\ tick.loops = 0 => tick.status # MONITORED
        /\ \A i \in VisitedPositions :
              IsOutlier(df_master[i]) =>
                  \E j \in 1..Len(anomaly_ledger_store) :
                      anomaly_ledger_store[j] = df_master[i]

\* C15: at every tick the observed digit distribution is computed over
\* exactly the records at batch positions 0..position of the current cycle;
\* after a wrap-around the window restarts at the first record and holds no
\* record seen only in earlier cycles.
C15_WindowIsCurrentCycle ==
    tick.path = "ok" =>
        LET position == Replay(tick.n).position
        IN  \A d \in 1..9 :
              /\ benford_graph.observed[d].num =
                    Cardinality({i \in 1..(position + 1) : df_master[i].first_digit = d})
              /\ benford_graph.observed[d].den = position + 1

C15_Witness ==
    /\ tick.path = "ok" /\ tick.loops >= 1 /\ tick.step + 1 < Len(df_master)
    /\ \E d \in 1..9 :
          /\ benford_graph.observed[d].num = 0
          /\ \E i \in 1..Len(df_master) : df_master[i].first_digit = d


\* C16: the annotated batch is fixed once annotation has run: no tick changes
\* a record's id, amount, is_outlier or leading_digit or the length and order
\* of the batch, and the outlier model is never fitted again during a tick, so
\* a record carries the same is_outlier and leading_digit in every cycle.
C16_BatchIsFixed ==
    /\ [][df_master' = df_master]_vars
    /\ [](\A j \in 1..Len(anomaly_ledger_store) :
             \E i \in 1..Len(df_master) : df_master[i] = anomaly_ledger_store[j])

C16_Witness ==
    /\ tick.path = "ok" /\ tick.loops >= 2 /\ Len(df_master) >= 2
    /\ Len(anomaly_ledger_store) >= 1
    /\ anomaly_ledger_store[1] = df_master[tick.step + 1]
    /\ \E i \in 1..Len(df_master) : ~IsOutlier(df_master[i])

\* the batch positions (from 0) plotted by a trace of the scatter figure
Xs(trace) == {trace[j].x : j \in 1..Len(trace)}

\* the scatter figure shows, as flagged, exactly the batch records whose id
\* is in the ledger, with their amounts
FlaggedAreLedgerIds ==
    /\ Xs(ml_graph.flagged) =
          {i - 1 : i \in {k \in 1..Len(df_master) :
                            df_master[k].Award_ID \in LedgerIds(anomaly_ledger_store)}}
    /\ \A j \in 1..Len(ml_graph.flagged) :
          ml_graph.flagged[j].y = df_master[ml_graph.flagged[j].x + 1].Amount

\* count, stored ledger and exported table of a frame agree
CountAndTableAgree ==
    /\ anomaly_ticker = DecimalDigits(Cardinality(LedgerIds(anomaly_ledger_store)))
    /\ audit_table = anomaly_ledger_store

\* C17 as stated: every frame is consistent: the displayed count is the
\* number of distinct ids of the ledger of the frame, the stored ledger and
\* the exported table are the same sequence, and the scatter data is
\* partitioned into a flagged subset (exactly the batch records whose id is
\* in that ledger) and a background subset disjoint from it.
C17_ScatterIsPartitioned ==
    tick.path = "ok" =>
        /\ CountAndTableAgree
        /\ FlaggedAreLedgerIds
        /\ Xs(ml_graph.background) \cap Xs(ml_graph.flagged) = {}

\* C17 amended: ... and the scatter data consists of a flagged subset
\* (exactly the batch records whose id is in that ledger) and a background
\* set of every record visited so far (positions 0..position in the first
\* cycle, the whole batch afterwards), flagged records included.
C17_ScatterIsOverlay ==
    tick.path = "ok" =>
        /\ CountAndTableAgree
        /\ FlaggedAreLedgerIds
        /\ Xs(ml_graph.background) = {i - 1 : i \in VisitedPositions}
        /\ \A j \in 1..Len(ml_graph.background) :
              ml_graph.background[j].y = df_master[ml_graph.background[j].x + 1].Amount
        /\ \A i \in VisitedPositions :
              df_master[i].Award_ID \in LedgerIds(anomaly_ledger_store) =>
                  (i - 1) \in Xs(ml_graph.background) \cap Xs(ml_graph.flagged)

C17_Witness ==
    /\ tick.path = "ok" /\ tick.loops = 0 /\ tick.step >= 1
    /\ tick.step + 1 < Len(df_master)
    /\ Len(ml_graph.flagged) >= 1
    /\ Len(ml_graph.background) = tick.step + 1
    /\ Xs(ml_graph.flagged) \subseteq Xs(ml_graph.background)

\* C18: after consecutive ticks 0..t on a non-empty batch from an empty
\* ledger, every ledger entry is a record of the batch with is_outlier true
\* at a position the cursor has visited; so the ledger count never exceeds
\* the number of outliers of the batch and no PASSED transaction is in it.
C18_LedgerHoldsVisitedOutliers ==
    tick.path = "ok" =>
        /\ \A j \in 1..Len(anomaly_ledger_store) :
              \E i \in VisitedPositions :
                  df_master[i] = anomaly_ledger_store[j] /\ IsOutlier(df_master[i])
        /\ Len(anomaly_ledger_store) <=
              Cardinality({i \in 1..Len(df_master) : IsOutlier(df_master[i])})

C18_Witness ==
    /\ tick.path = "ok" /\ tick.loops >= 1 /\ tick.status = PASSED
    /\ Len(anomaly_ledger_store) >= 1
    /\ Len(anomaly_ledger_store) < Len(df_master)

UniqueIds ==
    \A i, j \in 1..Len(df_master) :
        i # j => df_master[i].Award_ID # df_master[j].Award_ID

\* C19: for a batch of size N with unique ids and consecutive ticks: once the
\* first cycle is complete (tick >= N-1) the ledger holds exactly the outlier
\* records of the batch, in batch order; from then on the ledger never
\* changes and no tick reports FLAGGED, only PASSED or MONITORED.
C19_LedgerCompleteAfterFirstCycle ==
    /\ []((UniqueIds /\ tick.path = "ok" /\ tick.n >= Len(df_master) - 1) =>
             /\ anomaly_ledger_store = SelectSeq(df_master, IsOutlier)
             /\ tick.n >= Len(df_master) => tick.status \in {PASSED, MONITORED})
    /\ [][(UniqueIds /\ tick.path = "ok" /\ tick.n >= Len(df_master) - 1) =>
             anomaly_ledger_store' = anomaly_ledger_store]_vars

C19_Witness ==
    /\ UniqueIds /\ tick.path = "ok" /\ tick.loops >= 1 /\ Len(df_master) >= 3
    /\ Len(anomaly_ledger_store) >= 2 /\ tick.status = MONITORED
    /\ \E i \in 1..Len(df_master) : ~IsOutlier(df_master[i])

====
